---- MODULE Spec2Model ----
(***************************************************************************)
(* Model of finops.py: the five analysis engines (cost visibility, waste   *)
(* detection, optimization, forecasting, governance), FinOpsCLI._analyze,  *)
(* which runs them, and the end of FinOpsCLI.run, which generates the      *)
(* report and returns the exit code.                                       *)
(*                                                                         *)
(* Units.  Money is an integer number of mills (1/1000 USD), so 8.47 USD   *)
(* is 8470 and the per-GB rate 0.125 is 125; every price, product and the  *)
(* 30% reserved-instance estimate of the program is a whole number of      *)
(* mills.  cpu_avg is an integer number of hundredths of a percent (the    *)
(* collector rounds it to two decimals), so the threshold 5.0 is 500.      *)
(* A Python dict is a function whose DOMAIN is its key set, so a record    *)
(* with an absent key is a function without that key.                      *)
(***************************************************************************)
EXTENDS Integers, Sequences, FiniteSets, TLC

VARIABLES data, args, analysis, pc, raised_in, printed

vars == <<data, args, analysis, pc, raised_in, printed>>

(***************************************************************************)
(* Bounds of the model                                                     *)
(***************************************************************************)
MaxInstances == 3
MaxVolumes == 2
MaxSnapshots == 2
MaxEips == 2
MaxDbs == 2
MaxServices == 3
MaxMonths == 13
MaxTagged == 2
MaxScanned == 8

(***************************************************************************)
(* Python values                                                           *)
(***************************************************************************)
\* None, as returned by dict.get for a missing or unmeasured cpu_avg; it is
\* outside the range 0..10000 of measured utilizations.
None == -1

\* {} : the empty dict
EmptyDict == <<>>

\* dict.get(key, default)
Get(d, key, default) == IF key \in DOMAIN d THEN d[key] ELSE default

\* sum(item[field] for item in items)
RECURSIVE SumOf(_, _)
SumOf(items, field) ==
    IF items = <<>> THEN 0
    ELSE Head(items)[field] + SumOf(Tail(items), field)

(***************************************************************************)
(* FinOpsConfig                                                            *)
(***************************************************************************)
IDLE_CPU_THRESHOLD == 500
OLD_SNAPSHOT_DAYS == 90

EC2_PRICING ==
    ("t2.micro" :> 8470) @@ ("t2.small" :> 16790) @@ ("t2.medium" :> 33580) @@
    ("t2.large" :> 67160) @@ ("t2.xlarge" :> 134320) @@
    ("t3.micro" :> 7590) @@ ("t3.small" :> 15180) @@ ("t3.medium" :> 30370) @@
    ("t3.large" :> 60740) @@ ("t3.xlarge" :> 121470) @@ ("t3.2xlarge" :> 242940) @@
    ("m5.large" :> 70080) @@ ("m5.xlarge" :> 140160) @@ ("m5.2xlarge" :> 280320) @@
    ("m5.4xlarge" :> 560640) @@ ("m5.8xlarge" :> 1121280) @@
    ("c5.large" :> 62050) @@ ("c5.xlarge" :> 124100) @@ ("c5.2xlarge" :> 248190) @@
    ("r5.large" :> 91980) @@ ("r5.xlarge" :> 183960) @@ ("r5.2xlarge" :> 367920)

EBS_PRICING_PER_GB ==
    ("gp2" :> 100) @@ ("gp3" :> 80) @@
    ("io1" :> 125) @@ ("io2" :> 125) @@
    ("st1" :> 45) @@ ("sc1" :> 25) @@
    ("standard" :> 50)

SNAPSHOT_PRICING_PER_GB == 50
EIP_PRICING == 3650

RDS_PRICING ==
    ("db.t3.micro" :> 14180) @@ ("db.t3.small" :> 28360) @@
    ("db.t3.medium" :> 56720) @@ ("db.t3.large" :> 113440) @@
    ("db.r5.large" :> 183960) @@ ("db.r5.xlarge" :> 367920)

\* the fallbacks of the pricing lookups
EC2_DEFAULT_COST == 50000
EBS_DEFAULT_PRICE_PER_GB == 100
RDS_DEFAULT_COST == 100000

(***************************************************************************)
(* WasteDetectionEngine                                                    *)
(***************************************************************************)
\* the guard of _detect_idle_ec2: state, then cpu present and below threshold
IsIdleEc2Mut(instance) ==
    IF instance["state"] # "running" THEN FALSE
    ELSE LET cpu == Get(instance, "cpu_avg", None)
         IN  cpu # None /\ cpu <= IDLE_CPU_THRESHOLD

IsIdleEc2(instance) ==
    IF instance["state"] # "running" THEN FALSE
    ELSE LET cpu == Get(instance, "cpu_avg", None)
         IN  cpu # None /\ cpu < IDLE_CPU_THRESHOLD

IdleEc2Finding(instance) ==
    [resource_id |-> instance["id"],
     type |-> instance["type"],
     cpu_avg |-> Get(instance, "cpu_avg", None),
     monthly_cost |-> Get(EC2_PRICING, instance["type"], EC2_DEFAULT_COST),
     recommendation |-> "Terminate or schedule shutdown",
     priority |-> "HIGH",
     tags |-> Get(instance, "tags", EmptyDict)]

RECURSIVE IdleEc2Loop(_, _)
IdleEc2Loop(instances, idle) ==
    IF instances = <<>> THEN idle
    ELSE IF IsIdleEc2(Head(instances))
         THEN IdleEc2Loop(Tail(instances), Append(idle, IdleEc2Finding(Head(instances))))
         ELSE IdleEc2Loop(Tail(instances), idle)

_detect_idle_ec2(d) == IdleEc2Loop(Get(d, "ec2_instances", <<>>), <<>>)

\* the guard of _detect_unattached_ebs: not volume.get('attached', True)
IsUnattachedEbsMut(volume) == ~ Get(volume, "attached", FALSE)

IsUnattachedEbs(volume) == ~ Get(volume, "attached", TRUE)

UnattachedEbsFinding(volume) ==
    LET price_per_gb == Get(EBS_PRICING_PER_GB, volume["type"], EBS_DEFAULT_PRICE_PER_GB)
    IN  [resource_id |-> volume["id"],
         size_gb |-> volume["size_gb"],
         type |-> volume["type"],
         monthly_cost |-> volume["size_gb"] * price_per_gb,
         recommendation |-> "Delete or create snapshot",
         priority |-> "MEDIUM",
         tags |-> Get(volume, "tags", EmptyDict)]

RECURSIVE UnattachedEbsLoop(_, _)
UnattachedEbsLoop(volumes, unattached) ==
    IF volumes = <<>> THEN unattached
    ELSE IF IsUnattachedEbs(Head(volumes))
         THEN UnattachedEbsLoop(Tail(volumes),
                                Append(unattached, UnattachedEbsFinding(Head(volumes))))
         ELSE UnattachedEbsLoop(Tail(volumes), unattached)

_detect_unattached_ebs(d) == UnattachedEbsLoop(Get(d, "ebs_volumes", <<>>), <<>>)

\* the guard of _detect_old_snapshots
IsOldSnapshotMut(snapshot) == snapshot["age_days"] >= OLD_SNAPSHOT_DAYS

IsOldSnapshot(snapshot) == snapshot["age_days"] > OLD_SNAPSHOT_DAYS

\* the f-string of the recommendation, as the sequence of its pieces
OldSnapshotRecommendation(snapshot) ==
    <<"Delete snapshot (", ToString(snapshot["age_days"]), " days old)">>

OldSnapshotFinding(snapshot) ==
    [resource_id |-> snapshot["id"],
     size_gb |-> snapshot["size_gb"],
     age_days |-> snapshot["age_days"],
     monthly_cost |-> snapshot["size_gb"] * SNAPSHOT_PRICING_PER_GB,
     recommendation |-> OldSnapshotRecommendation(snapshot),
     priority |-> "LOW",
     tags |-> Get(snapshot, "tags", EmptyDict)]

RECURSIVE OldSnapshotLoop(_, _)
OldSnapshotLoop(snaps, old) ==
    IF snaps = <<>> THEN old
    ELSE IF IsOldSnapshot(Head(snaps))
         THEN OldSnapshotLoop(Tail(snaps), Append(old, OldSnapshotFinding(Head(snaps))))
         ELSE OldSnapshotLoop(Tail(snaps), old)

_detect_old_snapshots(d) == OldSnapshotLoop(Get(d, "snapshots", <<>>), <<>>)

\* the guard of _detect_unused_eips: not eip.get('attached', True)
IsUnusedEip(eip) == ~ Get(eip, "attached", TRUE)

UnusedEipFinding(eip) ==
    [resource_id |-> eip["id"],
     ip |-> eip["ip"],
     monthly_cost |-> EIP_PRICING,
     recommendation |-> "Release unused Elastic IP",
     priority |-> "MEDIUM",
     tags |-> Get(eip, "tags", EmptyDict)]

RECURSIVE UnusedEipLoop(_, _)
UnusedEipLoop(eips, unused) ==
    IF eips = <<>> THEN unused
    ELSE IF IsUnusedEip(Head(eips))
         THEN UnusedEipLoop(Tail(eips), Append(unused, UnusedEipFinding(Head(eips))))
         ELSE UnusedEipLoop(Tail(eips), unused)

_detect_unused_eips(d) == UnusedEipLoop(Get(d, "elastic_ips", <<>>), <<>>)

\* the guard of _detect_idle_rds: cpu present and below threshold, no state test
IsIdleRdsMut(db) ==
    LET cpu == Get(db, "cpu_avg", None)
    IN  db["state"] = "available" /\ cpu # None /\ cpu < IDLE_CPU_THRESHOLD

IsIdleRds(db) ==
    LET cpu == Get(db, "cpu_avg", None)
    IN  cpu # None /\ cpu < IDLE_CPU_THRESHOLD

IdleRdsFindingMut(db) ==
    [resource_id |-> db["id"],
     type |-> db["type"],
     engine |-> db["engine"],
     cpu_avg |-> Get(db, "cpu_avg", None),
     monthly_cost |-> Get(RDS_PRICING, db["type"], EC2_DEFAULT_COST),
     recommendation |-> "Stop or right-size database",
     priority |-> "HIGH",
     tags |-> Get(db, "tags", EmptyDict)]

IdleRdsFinding(db) ==
    [resource_id |-> db["id"],
     type |-> db["type"],
     engine |-> db["engine"],
     cpu_avg |-> Get(db, "cpu_avg", None),
     monthly_cost |-> Get(RDS_PRICING, db["type"], RDS_DEFAULT_COST),
     recommendation |-> "Stop or right-size database",
     priority |-> "HIGH",
     tags |-> Get(db, "tags", EmptyDict)]

RECURSIVE IdleRdsLoop(_, _)
IdleRdsLoop(dbs, idle) ==
    IF dbs = <<>> THEN idle
    ELSE IF IsIdleRds(Head(dbs))
         THEN IdleRdsLoop(Tail(dbs), Append(idle, IdleRdsFinding(Head(dbs))))
         ELSE IdleRdsLoop(Tail(dbs), idle)

_detect_idle_rds(d) == IdleRdsLoop(Get(d, "rds_instances", <<>>), <<>>)

\* the category order of the waste dict
WasteCategories == <<"idle_ec2", "unattached_ebs", "old_snapshots", "unused_eips", "idle_rds">>

\* sum(sum(item['monthly_cost'] for item in category) for category in waste.values())
RECURSIVE SumCategories(_, _)
SumCategories(waste, cats) ==
    IF cats = <<>> THEN 0
    ELSE SumOf(waste[Head(cats)], "monthly_cost") + SumCategories(waste, Tail(cats))

\* sum(len(category) for category in waste.values())
RECURSIVE CountCategories(_, _)
CountCategories(waste, cats) ==
    IF cats = <<>> THEN 0
    ELSE Len(waste[Head(cats)]) + CountCategories(waste, Tail(cats))

WasteTotalMut(waste) == SumCategories(waste, SubSeq(WasteCategories, 1, 3))

WasteTotal(waste) == SumCategories(waste, WasteCategories)

\* instance['state'] raises KeyError for an instance without a 'state' key
IdleEc2Raises(d) ==
    \E k \in 1..Len(Get(d, "ec2_instances", <<>>)) :
        "state" \notin DOMAIN Get(d, "ec2_instances", <<>>)[k]

\* snapshot['age_days'] raises KeyError for a snapshot without an 'age_days' key
OldSnapshotsRaises(d) ==
    \E k \in 1..Len(Get(d, "snapshots", <<>>)) :
        "age_days" \notin DOMAIN Get(d, "snapshots", <<>>)[k]

\* detect_all() raises what one of its detectors raises
DetectAllRaises(d) == IdleEc2Raises(d) \/ OldSnapshotsRaises(d)

detect_all(d) ==
    LET waste == [idle_ec2 |-> _detect_idle_ec2(d),
                  unattached_ebs |-> _detect_unattached_ebs(d),
                  old_snapshots |-> _detect_old_snapshots(d),
                  unused_eips |-> _detect_unused_eips(d),
                  idle_rds |-> _detect_idle_rds(d)]
        total == WasteTotal(waste)
    IN  [categories |-> waste,
         total_monthly_savings |-> total,
         total_annual_savings |-> total * 12,
         total_items |-> CountCategories(waste, WasteCategories)]

(***************************************************************************)
(* OptimizationEngine                                                      *)
(***************************************************************************)
\* sorted(wins, key=lambda x: x['monthly_savings'], reverse=True): the sort is
\* stable, so entries with equal savings keep their order in wins.  Built by
\* inserting each entry of wins, in order, behind every entry already placed
\* whose savings are not smaller.
InsertBySavingsMut(placed, w) ==
    LET before == SelectSeq(placed, LAMBDA p: p["monthly_savings"] > w["monthly_savings"])
        after  == SelectSeq(placed, LAMBDA p: p["monthly_savings"] <= w["monthly_savings"])
    IN  before \o <<w>> \o after

InsertBySavings(placed, w) ==
    LET before == SelectSeq(placed, LAMBDA p: p["monthly_savings"] >= w["monthly_savings"])
        after  == SelectSeq(placed, LAMBDA p: p["monthly_savings"] < w["monthly_savings"])
    IN  before \o <<w>> \o after

RECURSIVE SortedBySavingsDesc(_, _)
SortedBySavingsDesc(wins, placed) ==
    IF wins = <<>> THEN placed
    ELSE SortedBySavingsDesc(Tail(wins), InsertBySavings(placed, Head(wins)))

\* one candidate of _quick_wins: appended only if its savings are positive
QuickWinMut(title, savings, impact, timeframe) ==
    IF savings >= 0
    THEN <<[title |-> title, monthly_savings |-> savings, effort |-> "Low",
            impact |-> impact, timeframe |-> timeframe]>>
    ELSE <<>>

QuickWin(title, savings, impact, timeframe) ==
    IF savings > 0
    THEN <<[title |-> title, monthly_savings |-> savings, effort |-> "Low",
            impact |-> impact, timeframe |-> timeframe]>>
    ELSE <<>>

_quick_wins(waste_report) ==
    LET idle_ec2_savings == SumOf(waste_report["categories"]["idle_ec2"], "monthly_cost")
        ebs_savings == SumOf(waste_report["categories"]["unattached_ebs"], "monthly_cost")
        eip_savings == SumOf(waste_report["categories"]["unused_eips"], "monthly_cost")
        wins == QuickWin("Terminate idle EC2 instances", idle_ec2_savings, "High", "0-7 days")
                \o QuickWin("Delete unattached EBS volumes", ebs_savings, "Medium", "0-7 days")
                \o QuickWin("Release unused Elastic IPs", eip_savings, "Low", "0-1 days")
    IN  SortedBySavingsDesc(wins, <<>>)

\* v['type'] == 'gp2' and v['attached'] raises KeyError for a gp2 volume that
\* has no 'attached' key (the right operand is evaluated only for gp2 volumes)
MediumTermRaises(d) ==
    \E k \in 1..Len(Get(d, "ebs_volumes", <<>>)) :
        LET v == Get(d, "ebs_volumes", <<>>)[k]
        IN  v["type"] = "gp2" /\ "attached" \notin DOMAIN v

\* the price difference (0.10 - 0.08) per GB of the gp2 to gp3 conversion
GP2_PRICE_PER_GB == 100
GP3_PRICE_PER_GB == 80

RECURSIVE Gp2Savings(_)
Gp2Savings(gp2_volumes) ==
    IF gp2_volumes = <<>> THEN 0
    ELSE Head(gp2_volumes)["size_gb"] * (GP2_PRICE_PER_GB - GP3_PRICE_PER_GB)
         + Gp2Savings(Tail(gp2_volumes))

Gp2Volumes(d) ==
    SelectSeq(Get(d, "ebs_volumes", <<>>), LAMBDA v: v["type"] = "gp2" /\ v["attached"])

\* the value returned when no KeyError is raised
_medium_term_optimizations(d) ==
    LET gp2_volumes == Gp2Volumes(d)
        conversion ==
            IF gp2_volumes # <<>>
            THEN <<[title |-> <<"Convert ", ToString(Len(gp2_volumes)),
                                " EBS volumes from gp2 to gp3">>,
                    monthly_savings |-> Gp2Savings(gp2_volumes),
                    effort |-> "Medium", impact |-> "Medium",
                    timeframe |-> "30-60 days"]>>
            ELSE <<>>
        rightsizing ==
            <<[title |-> <<"Right-size EC2 instances (requires detailed analysis)">>,
               monthly_savings |-> 0,
               effort |-> "Medium", impact |-> "High",
               timeframe |-> "30-90 days"]>>
        opts == conversion \o rightsizing
    IN  SelectSeq(opts, LAMBDA o: o["monthly_savings"] > 0)

\* the reserved-instance threshold and the assumed saving, in percent
RI_MIN_RUNNING == 3
RI_SAVINGS_PERCENT == 30

RECURSIVE Ec2OnDemandCost(_)
Ec2OnDemandCost(instances) ==
    IF instances = <<>> THEN 0
    ELSE Get(EC2_PRICING, Head(instances)["type"], EC2_DEFAULT_COST)
         + Ec2OnDemandCost(Tail(instances))

RunningEc2Mut(d) ==
    Get(d, "ec2_instances", <<>>)

RunningEc2(d) ==
    SelectSeq(Get(d, "ec2_instances", <<>>), LAMBDA i: i["state"] = "running")

_long_term_optimizations(d) ==
    LET running_ec2 == RunningEc2(d)
    IN  IF Len(running_ec2) >= RI_MIN_RUNNING
        THEN <<[title |-> <<"Purchase Reserved Instances for ",
                            ToString(Len(running_ec2)), " instances">>,
                monthly_savings |->
                    (Ec2OnDemandCost(running_ec2) * RI_SAVINGS_PERCENT) \div 100,
                effort |-> "High", impact |-> "High",
                timeframe |-> "90+ days"]>>
        ELSE <<>>

\* optimize() raises exactly when _medium_term_optimizations does
OptimizeRaises(d) == MediumTermRaises(d)

\* the total taken over the quick wins and the medium-term tier only
optimizeMut(d, waste_report) ==
    LET quick_wins == _quick_wins(waste_report)
        medium_term == _medium_term_optimizations(d)
        long_term == _long_term_optimizations(d)
        total_savings == SumOf(quick_wins, "monthly_savings")
                         + SumOf(medium_term, "monthly_savings")
    IN  [quick_wins |-> quick_wins,
         medium_term |-> medium_term,
         long_term |-> long_term,
         total_potential_savings |-> total_savings,
         total_annual_impact |-> total_savings * 12]

\* the value optimize() returns when nothing is raised
optimize(d, waste_report) ==
    LET quick_wins == _quick_wins(waste_report)
        medium_term == _medium_term_optimizations(d)
        long_term == _long_term_optimizations(d)
        total_savings == SumOf(quick_wins, "monthly_savings")
                         + SumOf(medium_term, "monthly_savings")
                         + SumOf(long_term, "monthly_savings")
    IN  [quick_wins |-> quick_wins,
         medium_term |-> medium_term,
         long_term |-> long_term,
         total_potential_savings |-> total_savings,
         total_annual_impact |-> total_savings * 12]

(***************************************************************************)
(* CostVisibilityEngine                                                    *)
(*                                                                         *)
(* A cost dict is the sequence of its items, <<key, cost>> pairs in        *)
(* insertion order.  A percentage is not rounded by the program, so it is  *)
(* kept as the fraction in lowest terms [num |-> n, den |-> d] that the    *)
(* double approximates.                                                    *)
(***************************************************************************)
RECURSIVE GCD(_, _)
GCD(a, b) == IF b = 0 THEN a ELSE GCD(b, a % b)

\* sum(costs.values())
RECURSIVE SumOfValues(_)
SumOfValues(costs) ==
    IF costs = <<>> THEN 0 ELSE Head(costs)[2] + SumOfValues(Tail(costs))

\* total = sum(costs.values()) if costs else 1
BreakdownTotal(costs) == IF costs # <<>> THEN SumOfValues(costs) ELSE 1

\* (cost / total * 100) if total > 0 else 0
Percentage(cost, total) ==
    IF total > 0
    THEN LET g == GCD(cost, total)
             h == GCD(100, total \div g)
         IN  [num |-> (cost \div g) * (100 \div h), den |-> (total \div g) \div h]
    ELSE [num |-> 0, den |-> 1]

\* sorted(costs.items(), key=lambda x: x[1], reverse=True): stable, built by
\* inserting each item, in order, behind every item already placed whose cost
\* is not smaller
InsertByCostMut(placed, item) ==
    LET before == SelectSeq(placed, LAMBDA p: p[2] <= item[2])
        after  == SelectSeq(placed, LAMBDA p: p[2] > item[2])
    IN  before \o <<item>> \o after

InsertByCost(placed, item) ==
    LET before == SelectSeq(placed, LAMBDA p: p[2] >= item[2])
        after  == SelectSeq(placed, LAMBDA p: p[2] < item[2])
    IN  before \o <<item>> \o after

RECURSIVE SortedByCostDesc(_, _)
SortedByCostDesc(costs, placed) ==
    IF costs = <<>> THEN placed
    ELSE SortedByCostDesc(Tail(costs), InsertByCost(placed, Head(costs)))

\* the body shared by the three breakdown methods
Breakdown(costs) ==
    LET total == BreakdownTotal(costs)
        items == SortedByCostDesc(costs, <<>>)
    IN  [k \in 1..Len(items) |->
            [name |-> items[k][1],
             cost |-> items[k][2],
             percentage |-> Percentage(items[k][2], total)]]

_breakdown_by_service(d) == Breakdown(Get(d, "costs_by_service", <<>>))

_breakdown_by_team(d) == Breakdown(Get(d, "costs_by_team", <<>>))

_breakdown_by_environment(d) == Breakdown(Get(d, "costs_by_environment", <<>>))

\* CostVisibilityEngine.analyze
analyze(d) ==
    [total_monthly_cost |-> Get(d, "total_monthly_cost", 0),
     by_service |-> _breakdown_by_service(d),
     by_team |-> _breakdown_by_team(d),
     by_environment |-> _breakdown_by_environment(d)]

(***************************************************************************)
(* ForecastingEngine                                                       *)
(*                                                                         *)
(* The running cost of a scenario is never rounded, so it is kept exactly: *)
(* a decimal number of mills, [n |-> its digits, least significant first,  *)
(* e |-> the number of those digits that lie after the decimal point].     *)
(***************************************************************************)
\* the decimal digits of the natural number x, least significant first
RECURSIVE Digits(_)
Digits(x) == IF x < 10 THEN <<x>> ELSE <<x % 10>> \o Digits(x \div 10)

\* the natural number with the digits ds
RECURSIVE FromDigits(_)
FromDigits(ds) ==
    IF ds = <<>> THEN 0 ELSE Head(ds) + 10 * FromDigits(Tail(ds))

\* the digits of (the number with the digits ds) * k + carry
RECURSIVE MulDigits(_, _, _)
MulDigits(ds, k, carry) ==
    IF ds = <<>>
    THEN IF carry = 0 THEN <<>> ELSE Digits(carry)
    ELSE LET t == Head(ds) * k + carry
         IN  <<t % 10>> \o MulDigits(Tail(ds), k, t \div 10)

\* a whole number of mills as a running cost
DecOfMills(c) == [n |-> Digits(c), e |-> 0]

\* cost * 1.05, cost * 0.80, cost * 0.60: cost * k / 100
TimesHundredths(cost, k) == [n |-> MulDigits(cost.n, k, 0), e |-> cost.e + 2]

\* The ties of round(cost, 2) at which the double that the program computed
\* lies above the decimal tie, in mills (972.405 is 972405): CPython rounds
\* the double, so 800 * 1.05^4 is recorded as 972.41 and 1000 * 1.05^3 as
\* 1157.62.  Evaluated with CPython for the costs of ForecastCosts.
DoubleAboveTie == {694575, 972405, 28497735}

\* rounding to the whole unit of currency instead of the cent
Round2Mut(cost) ==
    LET len == Len(cost.n)
        drop == cost.e + 3
        units == IF len > drop THEN FromDigits(SubSeq(cost.n, drop + 1, len)) ELSE 0
        first == IF len >= drop THEN cost.n[drop] ELSE 0
    IN  (units + IF first >= 5 THEN 1 ELSE 0) * 1000

\* round(cost, 2), in mills: the digits from the cent upwards, plus one cent
\* when the part below the cent is more than half a cent
Round2(cost) ==
    LET len == Len(cost.n)
        drop == cost.e + 1
        cents == IF len > drop THEN FromDigits(SubSeq(cost.n, drop + 1, len)) ELSE 0
        first == IF len >= drop THEN cost.n[drop] ELSE 0
        rest == \E k \in 1..(drop - 1) : k <= len /\ cost.n[k] # 0
        up == \/ first > 5
              \/ first = 5 /\ rest
              \/ first = 5 /\ ~rest /\ (cents * 10 + 5) \in DoubleAboveTie
    IN  (cents + IF up THEN 1 ELSE 0) * 10

\* the loop of a scenario carrying the rounded cost into the next month
RECURSIVE ProjectionLoopMut(_, _, _)
ProjectionLoopMut(cost, month, months) ==
    IF month > months THEN <<>>
    ELSE LET grown == TimesHundredths(cost, 105)
         IN  <<[month |-> month, cost |-> Round2(grown)]>>
             \o ProjectionLoopMut(DecOfMills(Round2(grown)), month + 1, months)

\* for month in range(1, months + 1): cost = cost * 1.05;
\*     projections.append({'month': month, 'cost': round(cost, 2)})
RECURSIVE ProjectionLoop(_, _, _)
ProjectionLoop(cost, month, months) ==
    IF month > months THEN <<>>
    ELSE LET grown == TimesHundredths(cost, 105)
         IN  <<[month |-> month, cost |-> Round2(grown)]>>
             \o ProjectionLoop(grown, month + 1, months)

\* the cost of the last projected month instead of month i
MonthCostMut(projections, i) ==
    IF Len(projections) >= i THEN projections[Len(projections)]["cost"] ELSE 0

\* projections[i - 1]['cost'] if len(projections) >= i else 0
MonthCost(projections, i) ==
    IF Len(projections) >= i THEN projections[i]["cost"] ELSE 0

\* projections[:12]
YEAR_MONTHS == 12

\* sum(p['cost'] for p in projections[:12])
YearTotal(projections) ==
    SumOf(SubSeq(projections, 1,
                 IF Len(projections) < YEAR_MONTHS THEN Len(projections)
                 ELSE YEAR_MONTHS), "cost")

\* the dict that each of the three scenario methods returns
Scenario(name, level, projections) ==
    [name |-> name,
     optimization_level |-> level,
     growth_rate |-> "5% monthly",
     projections |-> projections,
     month_3 |-> MonthCost(projections, 3),
     month_6 |-> MonthCost(projections, 6),
     month_12 |-> MonthCost(projections, 12),
     year_total |-> YearTotal(projections)]

\* self.current_monthly
CurrentMonthly(d) == Get(d, "total_monthly_cost", 0)

_baseline_scenario(d, months) ==
    Scenario("Baseline (No Optimization)", "0%",
             ProjectionLoop(DecOfMills(CurrentMonthly(d)), 1, months))

_conservative_scenario(d, months) ==
    Scenario("Conservative (20% Optimization)", "20%",
             ProjectionLoop(TimesHundredths(DecOfMills(CurrentMonthly(d)), 80),
                            1, months))

\* the aggressive scenario starting from the conservative scenario's base
_aggressive_scenarioMut(d, months) ==
    Scenario("Aggressive (40% Optimization)", "40%",
             ProjectionLoop(TimesHundredths(DecOfMills(CurrentMonthly(d)), 80),
                            1, months))

_aggressive_scenario(d, months) ==
    Scenario("Aggressive (40% Optimization)", "40%",
             ProjectionLoop(TimesHundredths(DecOfMills(CurrentMonthly(d)), 60),
                            1, months))

forecast(d, months) ==
    [scenarios |-> <<_baseline_scenario(d, months),
                     _conservative_scenario(d, months),
                     _aggressive_scenario(d, months)>>,
     months |-> months,
     current_monthly |-> CurrentMonthly(d)]

(***************************************************************************)
(* GovernanceEngine                                                        *)
(*                                                                         *)
(* tag_compliance is an integer number of tenths of a percent: 66.7 is 667 *)
(* and 100 is 1000.                                                        *)
(***************************************************************************)
\* self.required_tags
required_tags == <<"Environment", "Team", "CostCenter">>

\* a resource that carries at least one required tag misses none
MissingTagsMut(resource) ==
    LET tags == Get(resource, "tags", EmptyDict)
        missing == SelectSeq(required_tags, LAMBDA tag : tag \notin DOMAIN tags)
    IN  IF Len(missing) < Len(required_tags) THEN <<>> ELSE missing

\* tags = resource.get('tags', {});
\* missing_tags = [tag for tag in self.required_tags if tag not in tags]
MissingTags(resource) ==
    LET tags == Get(resource, "tags", EmptyDict)
    IN  SelectSeq(required_tags, LAMBDA tag : tag \notin DOMAIN tags)

\* the violations that one of the two loops appends, in inventory order
RECURSIVE ViolationLoop(_, _)
ViolationLoop(resource_type, resources) ==
    IF resources = <<>> THEN <<>>
    ELSE LET resource == Head(resources)
             missing_tags == MissingTags(resource)
         IN  (IF missing_tags = <<>> THEN <<>>
              ELSE <<[resource_type |-> resource_type,
                      resource_id |-> resource["id"],
                      missing_tags |-> missing_tags]>>)
             \o ViolationLoop(resource_type, Tail(resources))

\* the number of resources that one of the two loops counts as compliant
RECURSIVE CompliantLoop(_)
CompliantLoop(resources) ==
    IF resources = <<>> THEN 0
    ELSE (IF MissingTags(Head(resources)) = <<>> THEN 1 ELSE 0)
         + CompliantLoop(Tail(resources))

\* round(compliant / total * 100, 1) in tenths of a percent.  The quotient is
\* a tie only when it is a multiple of 0.05 that a double holds exactly (the
\* total is then a multiple of 16), and CPython rounds such a tie to even.
Round1Pct(compliant, total) ==
    LET q == (compliant * 1000) \div total
        r == (compliant * 1000) % total
    IN  IF 2 * r > total \/ (2 * r = total /\ q % 2 = 1) THEN q + 1 ELSE q

\* (compliant / total * 100) if total > 0 else 100, rounded to one decimal
CompliancePct(compliant, total) ==
    IF total > 0 THEN Round1Pct(compliant, total) ELSE 1000

\* violations[:10]
VIOLATIONS_SHOWN == 10

\* the report counts as untagged only the violations it lists
_check_tag_complianceMut(d) ==
    LET instances == Get(d, "ec2_instances", <<>>)
        volumes == Get(d, "ebs_volumes", <<>>)
        total_resources == Len(instances) + Len(volumes)
        compliant_resources == CompliantLoop(instances) + CompliantLoop(volumes)
        violations == ViolationLoop("EC2", instances) \o ViolationLoop("EBS", volumes)
        shown == SubSeq(violations, 1,
                        IF Len(violations) < VIOLATIONS_SHOWN THEN Len(violations)
                        ELSE VIOLATIONS_SHOWN)
    IN  [compliance_percentage |-> CompliancePct(compliant_resources, total_resources),
         compliant_count |-> compliant_resources,
         untagged_count |-> Len(shown),
         violations |-> shown]

_check_tag_compliance(d) ==
    LET instances == Get(d, "ec2_instances", <<>>)
        volumes == Get(d, "ebs_volumes", <<>>)
        total_resources == Len(instances) + Len(volumes)
        compliant_resources == CompliantLoop(instances) + CompliantLoop(volumes)
        violations == ViolationLoop("EC2", instances) \o ViolationLoop("EBS", volumes)
    IN  [compliance_percentage |-> CompliancePct(compliant_resources, total_resources),
         compliant_count |-> compliant_resources,
         untagged_count |-> total_resources - compliant_resources,
         violations |-> SubSeq(violations, 1,
                               IF Len(violations) < VIOLATIONS_SHOWN
                               THEN Len(violations) ELSE VIOLATIONS_SHOWN)]

check_all(d) ==
    LET tag_compliance == _check_tag_compliance(d)
    IN  [tag_compliance |-> tag_compliance["compliance_percentage"],
         untagged_resources |-> tag_compliance["untagged_count"],
         violations |-> tag_compliance["violations"]]

(***************************************************************************)
(* The datasets the engines are run on                                     *)
(***************************************************************************)
\* every subsequence of s (entries kept in their order)
RECURSIVE SubSeqs(_)
SubSeqs(s) ==
    IF s = <<>> THEN {<<>>}
    ELSE LET rest == SubSeqs(Tail(s))
         IN  rest \cup {<<Head(s)>> \o r : r \in rest}

\* identifiers are unique within a category: the k-th record gets id k
WithIds(s) == [k \in 1..Len(s) |-> s[k] @@ [id |-> k]]

InstanceRecords ==
    [type: {"t3.medium", "x9.unknown"}, state: {"running", "stopped"},
     cpu_avg: {None, 499, 500}, tags: {EmptyDict}]

\* a volume record with and without the 'attached' key
VolumeRecords ==
    [type: {"gp2", "gp3", "zz1"}, size_gb: {100}, state: {"available", "in-use"},
     attached: BOOLEAN, tags: {EmptyDict}]
    \cup [type: {"gp2", "gp3", "zz1"}, size_gb: {100}, state: {"available", "in-use"},
          tags: {EmptyDict}]

SnapshotRecords ==
    [size_gb: {80, 100}, age_days: {89, 90, 91}, tags: {EmptyDict}]

\* an address record with and without the 'attached' key
EipRecords ==
    [ip: {"54.123.45.67"}, attached: BOOLEAN, tags: {EmptyDict}]
    \cup [ip: {"54.123.45.67"}, tags: {EmptyDict}]

DbRecords ==
    [type: {"db.t3.medium", "db.zz1"}, engine: {"postgres"},
     state: {"available", "stopped"}, cpu_avg: {None, 499, 500}, tags: {EmptyDict}]

\* a small inventory in the style of the demo data, with idle resources of
\* unpriced types, unattached volumes, unused addresses and an address
\* record without the 'attached' key
SampleInstances ==
    <<[type |-> "x9.unknown", state |-> "running", cpu_avg |-> 230,
       tags |-> [Environment |-> "dev", Team |-> "engineering"]],
      [type |-> "t3.medium", state |-> "running", cpu_avg |-> 110,
       tags |-> [Environment |-> "staging", Team |-> "data-science"]]>>

SampleVolumes ==
    <<[type |-> "gp2", size_gb |-> 500, state |-> "available", attached |-> FALSE,
       tags |-> EmptyDict],
      [type |-> "gp2", size_gb |-> 73, state |-> "available", attached |-> FALSE,
       tags |-> EmptyDict],
      [type |-> "gp2", size_gb |-> 200, state |-> "in-use", attached |-> TRUE,
       tags |-> [Environment |-> "production"]]>>

SampleSnapshots ==
    <<[size_gb |-> 80, age_days |-> 120, tags |-> EmptyDict]>>

SampleEips ==
    <<[ip |-> "54.123.45.67", attached |-> FALSE, tags |-> EmptyDict],
      [ip |-> "52.98.76.54", attached |-> FALSE, tags |-> EmptyDict],
      [ip |-> "52.11.22.33", tags |-> EmptyDict]>>

SampleDbs ==
    <<[type |-> "db.t3.medium", engine |-> "postgres", cpu_avg |-> 210,
       state |-> "available", tags |-> [Environment |-> "dev"]],
      [type |-> "db.zz1", engine |-> "mysql", cpu_avg |-> 120,
       state |-> "available", tags |-> EmptyDict]>>

\* the cost data of _generate_demo_data, in mills
DemoCostsByService ==
    <<<<"EC2", 18450000>>, <<"RDS", 12300000>>, <<"S3", 5670000>>,
      <<"Data Transfer", 4890000>>, <<"EBS", 2100000>>, <<"Other", 1824500>>>>

DemoCostsByTeam ==
    <<<<"engineering", 22100000>>, <<"data-science", 15670000>>,
      <<"backend", 7464500>>>>

DemoCostsByEnvironment ==
    <<<<"production", 31650000>>, <<"staging", 9050000>>,
      <<"development", 4534500>>>>

DEMO_TOTAL_MONTHLY_COST == 45234500

Dataset(instances, volumes, snaps, eips, dbs) ==
    [account_id |-> "DEMO-123456789",
     region |-> "us-east-1",
     ec2_instances |-> WithIds(instances),
     ebs_volumes |-> WithIds(volumes),
     snapshots |-> WithIds(snaps),
     elastic_ips |-> WithIds(eips),
     rds_instances |-> WithIds(dbs),
     total_monthly_cost |-> DEMO_TOTAL_MONTHLY_COST,
     costs_by_service |-> DemoCostsByService,
     costs_by_team |-> DemoCostsByTeam,
     costs_by_environment |-> DemoCostsByEnvironment]

\* the sample inventory with the demo cost data
SampleDataset ==
    Dataset(SampleInstances, SampleVolumes, SampleSnapshots, SampleEips, SampleDbs)

\* the dict d without the key key
WithoutKey(d, key) == [k \in DOMAIN d \ {key} |-> d[k]]

\* data is a sub-inventory of the sample
IsMixedDataset(d) ==
    \E i \in SubSeqs(SampleInstances), v \in SubSeqs(SampleVolumes),
       s \in SubSeqs(SampleSnapshots), e \in SubSeqs(SampleEips),
       r \in SubSeqs(SampleDbs) :
        d = Dataset(i, v, s, e, r)

\* one category of d ranges over all its records, the others are the sample's
IsCategoryDataset(d) ==
    \/ \E k \in 0..MaxInstances : \E i \in [1..k -> InstanceRecords] :
           d = Dataset(i, SampleVolumes, SampleSnapshots, SampleEips, SampleDbs)
    \/ \E k \in 0..MaxVolumes : \E v \in [1..k -> VolumeRecords] :
           d = Dataset(SampleInstances, v, SampleSnapshots, SampleEips, SampleDbs)
    \/ \E k \in 0..MaxSnapshots : \E s \in [1..k -> SnapshotRecords] :
           d = Dataset(SampleInstances, SampleVolumes, s, SampleEips, SampleDbs)
    \/ \E k \in 0..MaxEips : \E e \in [1..k -> EipRecords] :
           d = Dataset(SampleInstances, SampleVolumes, SampleSnapshots, e, SampleDbs)
    \/ \E k \in 0..MaxDbs : \E r \in [1..k -> DbRecords] :
           d = Dataset(SampleInstances, SampleVolumes, SampleSnapshots, SampleEips, r)

\* total_monthly_cost of the forecasting runs, in mills: nothing, 0.01, 0.03,
\* 0.19, 0.21, 999.99, 1000.00 and the demo account's 45234.50
ForecastCosts == {0, 10, 30, 190, 210, 999990, 1000000, DEMO_TOTAL_MONTHLY_COST}

\* the sample inventory with a total_monthly_cost of ForecastCosts
IsForecastDataset(d) ==
    \E c \in ForecastCosts : d = [SampleDataset EXCEPT !["total_monthly_cost"] = c]

\* tag dicts: every subset of the required tags with an empty and a non-empty
\* value, and two dicts with a tag that is not required
TagDicts ==
    {[k \in S |-> v] : S \in SUBSET {"Environment", "Team", "CostCenter"},
                       v \in {"", "prod"}}
    \cup {[Name |-> "web"],
          [Environment |-> "prod", Team |-> "core", CostCenter |-> "42", Name |-> "web"]}

\* instance and volume records with every tag dict, and without a 'tags' key
TaggedInstanceRecords ==
    [type: {"t3.medium"}, state: {"stopped"}, cpu_avg: {None}, tags: TagDicts]
    \cup [type: {"t3.medium"}, state: {"stopped"}, cpu_avg: {None}]

TaggedVolumeRecords ==
    [type: {"gp3"}, size_gb: {100}, state: {"in-use"}, attached: {TRUE}, tags: TagDicts]
    \cup [type: {"gp3"}, size_gb: {100}, state: {"in-use"}, attached: {TRUE}]

\* the tag dicts that the resources of a long inventory carry in turn
TagCycle ==
    <<EmptyDict,
      [Environment |-> "prod", Team |-> "core", CostCenter |-> "42"],
      [Team |-> "core"],
      [Environment |-> "prod", CostCenter |-> "42"]>>

\* n instances (volumes) whose k-th record carries the (k + offset)-th tag dict
\* of TagCycle
CycledInstances(n, offset) ==
    [k \in 1..n |-> [type |-> "t3.medium", state |-> "stopped", cpu_avg |-> None,
                     tags |-> TagCycle[((k + offset) % Len(TagCycle)) + 1]]]

CycledVolumes(n, offset) ==
    [k \in 1..n |-> [type |-> "gp3", size_gb |-> 100, state |-> "in-use",
                     attached |-> TRUE,
                     tags |-> TagCycle[((k + offset) % Len(TagCycle)) + 1]]]

\* inventories for the governance scan: instances or volumes with every tag
\* dict next to the sample, and long inventories of both
IsGovernanceDataset(d) ==
    \/ \E k \in 0..MaxTagged : \E i \in [1..k -> TaggedInstanceRecords] :
           d = Dataset(i, SampleVolumes, SampleSnapshots, SampleEips, SampleDbs)
    \/ \E k \in 0..MaxTagged : \E v \in [1..k -> TaggedVolumeRecords] :
           d = Dataset(SampleInstances, v, SampleSnapshots, SampleEips, SampleDbs)
    \/ \E ni \in 0..MaxScanned, nv \in 0..MaxScanned, o \in 0..(Len(TagCycle) - 1) :
           d = Dataset(CycledInstances(ni, o), CycledVolumes(nv, o + 1),
                       SampleSnapshots, SampleEips, SampleDbs)

\* the keys of the cost dicts of the visibility runs
ServiceNames == <<"EC2", "RDS", "S3", "EBS", "Lambda", "Other">>

\* their costs, in mills: nothing, 10.00, 20.00
BreakdownCosts == {0, 10000, 20000}

\* cost dicts with up to MaxServices keys, and the dict {EC2: 18450, RDS: 12300}
CostDicts ==
    UNION {{[k \in 1..n |-> <<ServiceNames[k], c[k]>>] : c \in [1..n -> BreakdownCosts]} :
               n \in 0..MaxServices}
    \cup {<<<<"EC2", 18450000>>, <<"RDS", 12300000>>>>}

\* the sample inventory with a costs_by_service dict of CostDicts; costs_by_team
\* is the demo's or absent, as in _collect_real_data
IsVisibilityDataset(d) ==
    \E costs \in CostDicts :
        LET with == [SampleDataset EXCEPT !["costs_by_service"] = costs]
        IN  d = with \/ d = WithoutKey(with, "costs_by_team")

\* the records of s, those at the positions of bad without the key key
WithoutKeyAt(s, bad, key) ==
    [k \in 1..Len(s) |-> IF k \in bad THEN WithoutKey(s[k], key) ELSE s[k]]

\* a sub-inventory of the sample in which at least one instance has no 'state'
\* or one snapshot no 'age_days'
IsMalformedDataset(d) ==
    \E i \in SubSeqs(SampleInstances), v \in SubSeqs(SampleVolumes),
       s \in SubSeqs(SampleSnapshots) :
        \E bi \in SUBSET (1..Len(i)), bs \in SUBSET (1..Len(s)) :
            /\ bi \cup bs # {}
            /\ d = Dataset(WithoutKeyAt(i, bi, "state"), v,
                           WithoutKeyAt(s, bs, "age_days"), SampleEips, SampleDbs)

\* a sub-inventory of the sample in which some instances have no 'tags' key
IsUntaggedDataset(d) ==
    \E i \in SubSeqs(SampleInstances), v \in SubSeqs(SampleVolumes) :
        \E bi \in SUBSET (1..Len(i)) :
            d = Dataset(WithoutKeyAt(i, bi, "tags"), v, SampleSnapshots,
                        SampleEips, SampleDbs)

(***************************************************************************)
(* FinOpsCLI                                                               *)
(***************************************************************************)
\* the parsed command line: --analyze, --waste alone, --visibility alone,
\* --forecast MONTHS alone and --analyze --forecast MONTHS
AnalyzeArgs ==
    [demo |-> FALSE, analyze |-> TRUE, visibility |-> FALSE, waste |-> FALSE,
     forecast |-> None]

WasteArgs ==
    [demo |-> FALSE, analyze |-> FALSE, visibility |-> FALSE, waste |-> TRUE,
     forecast |-> None]

VisibilityArgs ==
    [demo |-> FALSE, analyze |-> FALSE, visibility |-> TRUE, waste |-> FALSE,
     forecast |-> None]

ForecastArgs(months) ==
    [demo |-> FALSE, analyze |-> FALSE, visibility |-> FALSE, waste |-> FALSE,
     forecast |-> months]

AnalyzeForecastArgs(months) ==
    [demo |-> FALSE, analyze |-> TRUE, visibility |-> FALSE, waste |-> FALSE,
     forecast |-> months]

\* --demo alone, and no mode flag at all
DemoArgs ==
    [demo |-> TRUE, analyze |-> FALSE, visibility |-> FALSE, waste |-> FALSE,
     forecast |-> None]

NoArgs ==
    [demo |-> FALSE, analyze |-> FALSE, visibility |-> FALSE, waste |-> FALSE,
     forecast |-> None]

\* main: default to analyze if nothing specified (any() of the four flags and
\* of forecast, for which None and 0 are false)
main(a) ==
    IF ~(a["demo"] \/ a["analyze"] \/ a["visibility"] \/ a["waste"]
         \/ (a["forecast"] # None /\ a["forecast"] # 0))
    THEN [a EXCEPT !["analyze"] = TRUE]
    ELSE a

\* if self.args.forecast: None and 0 are false
ForecastRequested(a) == a["forecast"] # None /\ a["forecast"] # 0

\* _analyze starts with the metadata entry only
Start ==
    /\ analysis = [metadata |-> [account_id |-> Get(data, "account_id", "Unknown"),
                                 region |-> Get(data, "region", "us-east-1")]]
    /\ pc = "visibility"
    /\ raised_in = "nowhere"
    /\ printed = <<>>

Init ==
    /\ \/ args = AnalyzeArgs /\ (IsMixedDataset(data) \/ IsCategoryDataset(data))
       \/ args = WasteArgs /\ IsMixedDataset(data)
    /\ Start

InitForecast ==
    /\ IsForecastDataset(data)
    /\ \E months \in 1..MaxMonths :
           args = ForecastArgs(months) \/ args = AnalyzeForecastArgs(months)
    /\ Start

InitGovernance ==
    /\ IsGovernanceDataset(data)
    /\ args = AnalyzeArgs
    /\ Start

InitVisibility ==
    /\ IsVisibilityDataset(data)
    /\ args = AnalyzeArgs \/ args = VisibilityArgs
    /\ Start

\* every combination of engines that the command line selects
InitAnyEngines ==
    /\ IsUntaggedDataset(data)
    /\ \/ args \in {main(a) : a \in {NoArgs, DemoArgs, AnalyzeArgs, WasteArgs,
                                     VisibilityArgs}}
       \/ \E months \in {1, MaxMonths} :
              args = ForecastArgs(months) \/ args = AnalyzeForecastArgs(months)
    /\ Start

InitMalformed ==
    /\ IsMalformedDataset(data)
    /\ args = AnalyzeArgs \/ args = WasteArgs \/ args = VisibilityArgs
    /\ Start

\* 1. Cost Visibility
VisibilityStep ==
    /\ pc = "visibility"
    /\ analysis' = IF args["analyze"] \/ args["visibility"]
                   THEN analysis @@ ("visibility" :> analyze(data))
                   ELSE analysis
    /\ pc' = "waste"
    /\ UNCHANGED <<data, args, raised_in, printed>>

\* 2. Waste Detection.  A KeyError raised in detect_all() leaves _analyze and
\* is caught in run(), which returns 1: pc = "error".
WasteStep ==
    /\ pc = "waste"
    /\ IF args["analyze"] \/ args["waste"]
       THEN IF DetectAllRaises(data)
            THEN /\ analysis' = analysis
                 /\ pc' = "error"
                 /\ raised_in' = "WasteDetectionEngine"
            ELSE /\ analysis' = analysis @@ ("waste" :> detect_all(data))
                 /\ pc' = "optimization"
                 /\ raised_in' = raised_in
       ELSE /\ analysis' = analysis
            /\ pc' = "optimization"
            /\ raised_in' = raised_in
    /\ UNCHANGED <<data, args, printed>>

\* the optimizer also run under --visibility, on an empty waste report when
\* waste detection did not run
OptimizationStepMut ==
    /\ pc = "optimization"
    /\ IF args["analyze"] \/ args["visibility"]
       THEN IF OptimizeRaises(data)
            THEN /\ analysis' = analysis
                 /\ pc' = "error"
                 /\ raised_in' = "OptimizationEngine"
            ELSE /\ analysis' = analysis @@
                        ("optimization" :>
                             optimize(data, Get(analysis, "waste", detect_all(EmptyDict))))
                 /\ pc' = "forecast"
                 /\ raised_in' = raised_in
       ELSE /\ analysis' = analysis
            /\ pc' = "forecast"
            /\ raised_in' = raised_in
    /\ UNCHANGED <<data, args, printed>>

\* 3. Optimization.  A KeyError raised in optimize() ends the run in the same
\* way.
OptimizationStep ==
    /\ pc = "optimization"
    /\ IF args["analyze"] /\ "waste" \in DOMAIN analysis
       THEN IF OptimizeRaises(data)
            THEN /\ analysis' = analysis
                 /\ pc' = "error"
                 /\ raised_in' = "OptimizationEngine"
            ELSE /\ analysis' = analysis @@
                        ("optimization" :> optimize(data, analysis["waste"]))
                 /\ pc' = "forecast"
                 /\ raised_in' = raised_in
       ELSE /\ analysis' = analysis
            /\ pc' = "forecast"
            /\ raised_in' = raised_in
    /\ UNCHANGED <<data, args, printed>>

\* 4. Forecasting
ForecastStep ==
    /\ pc = "forecast"
    /\ analysis' = IF ForecastRequested(args)
                   THEN analysis @@ ("forecast" :> forecast(data, args["forecast"]))
                   ELSE analysis
    /\ pc' = "governance"
    /\ UNCHANGED <<data, args, raised_in, printed>>

\* the records of s, those without a 'tags' key given an empty tag dict
WithDefaultTags(s) ==
    [k \in 1..Len(s) |-> IF "tags" \in DOMAIN s[k] THEN s[k]
                         ELSE s[k] @@ [tags |-> EmptyDict]]

\* the governance scan storing an empty tag dict in every record without one
\* (setdefault in place of get)
GovernanceStepMut ==
    /\ pc = "governance"
    /\ analysis' = IF args["analyze"]
                   THEN analysis @@ ("governance" :> check_all(data))
                   ELSE analysis
    /\ data' = IF args["analyze"]
               THEN [data EXCEPT !["ec2_instances"] = WithDefaultTags(@),
                                 !["ebs_volumes"] = WithDefaultTags(@)]
               ELSE data
    /\ pc' = "report"
    /\ UNCHANGED <<args, raised_in, printed>>

\* 5. Governance
GovernanceStep ==
    /\ pc = "governance"
    /\ analysis' = IF args["analyze"]
                   THEN analysis @@ ("governance" :> check_all(data))
                   ELSE analysis
    /\ pc' = "report"
    /\ UNCHANGED <<data, args, raised_in, printed>>

\* analysis['visibility'], analysis['waste'] and analysis['optimization'] are
\* read with subscripts: KeyError when _analyze did not store the section
ReportRaises(a) ==
    \/ "visibility" \notin DOMAIN a
    \/ "waste" \notin DOMAIN a
    \/ "optimization" \notin DOMAIN a

\* the headings of the sections of the text report, in the order in which they
\* are appended
generate_text_report(a) ==
    <<"AWS FINOPS ANALYSIS REPORT", "COST VISIBILITY", "WASTE DETECTION",
      "OPTIMIZATION OPPORTUNITIES">>
    \o (IF "forecast" \in DOMAIN a THEN <<"12-MONTH FORECAST">> ELSE <<>>)
    \o (IF "governance" \in DOMAIN a THEN <<"GOVERNANCE & COMPLIANCE">> ELSE <<>>)
    \o <<"ACTION PLAN (PRIORITY ORDER)", "BOTTOM LINE">>

\* run(), after _analyze has returned: the report is generated and printed and
\* run returns 0 (pc = "done"); a KeyError raised by the report generator is
\* caught by the same except branch and run returns 1 (pc = "error").
ReportStep ==
    /\ pc = "report"
    /\ IF ReportRaises(analysis)
       THEN /\ printed' = printed
            /\ pc' = "error"
            /\ raised_in' = "ReportGenerator"
       ELSE /\ printed' = generate_text_report(analysis)
            /\ pc' = "done"
            /\ raised_in' = raised_in
    /\ UNCHANGED <<data, args, analysis>>

\* the value run() returns: 0 from the end of the try block, 1 from the except
\* branch, nothing while it is running
ExitCode == IF pc = "done" THEN 0 ELSE IF pc = "error" THEN 1 ELSE None

Next ==
    \/ VisibilityStep
    \/ WasteStep
    \/ OptimizationStep
    \/ ForecastStep
    \/ GovernanceStep
    \/ ReportStep

Spec == Init /\ [][Next]_vars

SpecForecast == InitForecast /\ [][Next]_vars

SpecGovernance == InitGovernance /\ [][Next]_vars

SpecVisibility == InitVisibility /\ [][Next]_vars

SpecMalformed == InitMalformed /\ [][Next]_vars

SpecAnyEngines == InitAnyEngines /\ [][Next]_vars

(***************************************************************************)
(* Properties                                                              *)
(***************************************************************************)
\* the sum of the values of a function with a finite domain
RECURSIVE FnSum(_)
FnSum(f) ==
    IF DOMAIN f = {} THEN 0
    ELSE LET x == CHOOSE y \in DOMAIN f : TRUE
         IN  f[x] + FnSum([y \in DOMAIN f \ {x} |-> f[y]])

\* the position of k among the members of the index set S, counted from 1
Rank(S, k) == Cardinality({m \in S : m <= k})

WasteDone == "waste" \in DOMAIN analysis
OptimizationDone == "optimization" \in DOMAIN analysis

\* findings lists the resources whose index is in flagged, once each and in
\* inventory order
ListsExactly(findings, resources, flagged) ==
    /\ Len(findings) = Cardinality(flagged)
    /\ \A k \in flagged : findings[Rank(flagged, k)]["resource_id"] = resources[k]["id"]

\* C1: the waste report's total_monthly_savings is the sum of monthly_cost over
\* every finding of the five categories, total_annual_savings is twelve times
\* that, and total_items is the number of findings.
C1_WasteTotals ==
    WasteDone =>
        LET report == analysis["waste"]
            cats == report["categories"]
            findings == UNION {{<<c, k>> : k \in 1..Len(cats[c])} : c \in DOMAIN cats}
            total == FnSum([p \in findings |-> cats[p[1]][p[2]]["monthly_cost"]])
        IN  /\ DOMAIN cats = {"idle_ec2", "unattached_ebs", "old_snapshots",
                              "unused_eips", "idle_rds"}
            /\ report["total_monthly_savings"] = total
            /\ report["total_annual_savings"] = total * 12
            /\ report["total_items"] = Cardinality(findings)

C1_Witness ==
    /\ WasteDone
    /\ \A c \in DOMAIN analysis["waste"]["categories"] :
            Len(analysis["waste"]["categories"][c]) >= 1
    /\ Len(analysis["waste"]["categories"]["unattached_ebs"]) >= 2
    /\ analysis["waste"]["total_monthly_savings"] > 0

\* C2: an instance is an idle-compute finding iff it is running and its
\* utilization is present and strictly below 5.0; an instance without
\* utilization is never flagged and one at exactly 5.0 is not; each flagged
\* instance gives exactly one finding, of priority HIGH, in inventory order.
C2_IdleEc2 ==
    WasteDone =>
        LET instances == data["ec2_instances"]
            found == analysis["waste"]["categories"]["idle_ec2"]
            flagged == {k \in 1..Len(instances) :
                            /\ instances[k]["state"] = "running"
                            /\ instances[k]["cpu_avg"] # None
                            /\ instances[k]["cpu_avg"] < 500}
        IN  /\ ListsExactly(found, instances, flagged)
            /\ \A j \in 1..Len(found) : found[j]["priority"] = "HIGH"
            /\ \A k \in 1..Len(instances) :
                   instances[k]["cpu_avg"] \in {None, 500} =>
                       \A j \in 1..Len(found) :
                           found[j]["resource_id"] # instances[k]["id"]

C2_Witness ==
    /\ WasteDone
    /\ Len(analysis["waste"]["categories"]["idle_ec2"]) = 2
    /\ Len(data["ec2_instances"]) = 3
    /\ data["ec2_instances"][2]["state"] = "running"
    /\ data["ec2_instances"][2]["cpu_avg"] \in {None, 500}

\* C3: a volume, and likewise an address, is a finding iff its attachment flag
\* is present and false; a record without the flag is treated as attached.
\* For a volume the lifecycle state plays no part and the priority is MEDIUM.
C3_AttachmentFailSafe ==
    WasteDone =>
        LET volumes == data["ebs_volumes"]
            eips == data["elastic_ips"]
            foundVolumes == analysis["waste"]["categories"]["unattached_ebs"]
            foundEips == analysis["waste"]["categories"]["unused_eips"]
            flaggedVolumes == {k \in 1..Len(volumes) :
                                   /\ "attached" \in DOMAIN volumes[k]
                                   /\ volumes[k]["attached"] = FALSE}
            flaggedEips == {k \in 1..Len(eips) :
                                /\ "attached" \in DOMAIN eips[k]
                                /\ eips[k]["attached"] = FALSE}
        IN  /\ ListsExactly(foundVolumes, volumes, flaggedVolumes)
            /\ ListsExactly(foundEips, eips, flaggedEips)
            /\ \A j \in 1..Len(foundVolumes) : foundVolumes[j]["priority"] = "MEDIUM"

C3_Witness ==
    /\ WasteDone
    /\ \E k \in 1..Len(data["ebs_volumes"]) : "attached" \notin DOMAIN data["ebs_volumes"][k]
    /\ \E k \in 1..Len(data["ebs_volumes"]) :
           /\ "attached" \in DOMAIN data["ebs_volumes"][k]
           /\ ~ data["ebs_volumes"][k]["attached"]
           /\ data["ebs_volumes"][k]["state"] = "in-use"
    /\ \E k \in 1..Len(data["elastic_ips"]) : "attached" \notin DOMAIN data["elastic_ips"][k]
    /\ Len(analysis["waste"]["categories"]["unattached_ebs"]) = 1
    /\ Len(analysis["waste"]["categories"]["unused_eips"]) = 2

\* C4: a snapshot is a finding iff it is more than 90 days old (90 is not, 91
\* is); the finding costs size_gb x 0.05 a month, has priority LOW and a
\* recommendation that contains the age in days.
C4_OldSnapshots ==
    WasteDone =>
        LET snaps == data["snapshots"]
            found == analysis["waste"]["categories"]["old_snapshots"]
            flagged == {k \in 1..Len(snaps) : snaps[k]["age_days"] > 90}
        IN  /\ ListsExactly(found, snaps, flagged)
            /\ \A k \in flagged :
                   LET f == found[Rank(flagged, k)]
                   IN  /\ f["monthly_cost"] = snaps[k]["size_gb"] * 50
                       /\ f["priority"] = "LOW"
                       /\ \E i \in DOMAIN f["recommendation"] :
                              f["recommendation"][i] = ToString(snaps[k]["age_days"])

C4_Witness ==
    /\ WasteDone
    /\ Len(data["snapshots"]) = 2
    /\ data["snapshots"][1]["age_days"] = 90
    /\ data["snapshots"][2]["age_days"] = 91
    /\ Len(analysis["waste"]["categories"]["old_snapshots"]) = 1
    /\ analysis["waste"]["categories"]["old_snapshots"][1]["resource_id"] = 2

\* C5: a database is a finding iff its utilization is present and strictly
\* below 5.0, whatever its state; without utilization it is never flagged;
\* the priority is HIGH.
C5_IdleRds ==
    WasteDone =>
        LET dbs == data["rds_instances"]
            found == analysis["waste"]["categories"]["idle_rds"]
            flagged == {k \in 1..Len(dbs) :
                            dbs[k]["cpu_avg"] # None /\ dbs[k]["cpu_avg"] < 500}
        IN  /\ ListsExactly(found, dbs, flagged)
            /\ \A j \in 1..Len(found) : found[j]["priority"] = "HIGH"

C5_Witness ==
    /\ WasteDone
    /\ Len(data["rds_instances"]) = 2
    /\ data["rds_instances"][1]["state"] = "stopped"
    /\ data["rds_instances"][1]["cpu_avg"] = 499
    /\ data["rds_instances"][2]["cpu_avg"] = None
    /\ Len(analysis["waste"]["categories"]["idle_rds"]) = 1
    /\ analysis["waste"]["categories"]["idle_rds"][1]["resource_id"] = 1

\* the finding of findings made for the resource with identifier id
FindingsFor(findings, id) == {j \in 1..Len(findings) : findings[j]["resource_id"] = id}

\* C6: a type missing from its pricing table never fails waste detection: the
\* flagged resource still gets its finding, priced with the fallback (50.0 a
\* month for compute, 0.10 per GB for block storage, 100.0 a month for
\* databases); a known type takes the table's value (an unattached 100 GB gp2
\* volume costs 10.00); no monthly_cost is negative.
C6_PricingFallback ==
    /\ (pc \notin {"visibility", "waste", "error"} /\ (args["analyze"] \/ args["waste"]))
           => WasteDone
    /\ WasteDone =>
        LET cats == analysis["waste"]["categories"]
            instances == data["ec2_instances"]
            volumes == data["ebs_volumes"]
            dbs == data["rds_instances"]
        IN  /\ \A k \in 1..Len(instances) :
                   LET i == instances[k]
                       idle == i["state"] = "running" /\ i["cpu_avg"] # None
                                   /\ i["cpu_avg"] < 500
                       fs == FindingsFor(cats["idle_ec2"], i["id"])
                   IN  /\ idle => fs # {}
                       /\ \A j \in fs :
                              cats["idle_ec2"][j]["monthly_cost"] =
                                  IF i["type"] \in DOMAIN EC2_PRICING
                                  THEN EC2_PRICING[i["type"]] ELSE 50000
            /\ \A k \in 1..Len(volumes) :
                   LET v == volumes[k]
                       loose == "attached" \in DOMAIN v /\ ~ v["attached"]
                       fs == FindingsFor(cats["unattached_ebs"], v["id"])
                   IN  /\ loose => fs # {}
                       /\ \A j \in fs :
                              /\ cats["unattached_ebs"][j]["monthly_cost"] =
                                     v["size_gb"] * (IF v["type"] \in DOMAIN EBS_PRICING_PER_GB
                                                     THEN EBS_PRICING_PER_GB[v["type"]]
                                                     ELSE 100)
                              /\ (v["type"] = "gp2" /\ v["size_gb"] = 100) =>
                                     cats["unattached_ebs"][j]["monthly_cost"] = 10000
            /\ \A k \in 1..Len(dbs) :
                   LET r == dbs[k]
                       idle == r["cpu_avg"] # None /\ r["cpu_avg"] < 500
                       fs == FindingsFor(cats["idle_rds"], r["id"])
                   IN  /\ idle => fs # {}
                       /\ \A j \in fs :
                              cats["idle_rds"][j]["monthly_cost"] =
                                  IF r["type"] \in DOMAIN RDS_PRICING
                                  THEN RDS_PRICING[r["type"]] ELSE 100000
            /\ \A c \in DOMAIN cats : \A j \in 1..Len(cats[c]) :
                   cats[c][j]["monthly_cost"] >= 0

C6_Witness ==
    /\ WasteDone
    /\ \E j \in 1..Len(analysis["waste"]["categories"]["idle_ec2"]) :
           /\ analysis["waste"]["categories"]["idle_ec2"][j]["type"] \notin DOMAIN EC2_PRICING
           /\ analysis["waste"]["categories"]["idle_ec2"][j]["monthly_cost"] = 50000
    /\ \E j \in 1..Len(analysis["waste"]["categories"]["idle_rds"]) :
           /\ analysis["waste"]["categories"]["idle_rds"][j]["type"] \notin DOMAIN RDS_PRICING
           /\ analysis["waste"]["categories"]["idle_rds"][j]["monthly_cost"] = 100000
    /\ \E j \in 1..Len(analysis["waste"]["categories"]["unattached_ebs"]) :
           /\ analysis["waste"]["categories"]["unattached_ebs"][j]["type"]
                  \notin DOMAIN EBS_PRICING_PER_GB
           /\ analysis["waste"]["categories"]["unattached_ebs"][j]["monthly_cost"] = 10000
    /\ \E j \in 1..Len(analysis["waste"]["categories"]["unattached_ebs"]) :
           /\ analysis["waste"]["categories"]["unattached_ebs"][j]["type"] = "gp3"
           /\ analysis["waste"]["categories"]["unattached_ebs"][j]["monthly_cost"] = 8000

\* the quick-win candidates: waste category, title, place in the emission order
QuickWinCategories ==
    {<<"idle_ec2", "Terminate idle EC2 instances", 1>>,
     <<"unattached_ebs", "Delete unattached EBS volumes", 2>>,
     <<"unused_eips", "Release unused Elastic IPs", 3>>}

CategoryCost(report, c) ==
    FnSum([k \in 1..Len(report["categories"][c]) |->
               report["categories"][c][k]["monthly_cost"]])

\* C7: the quick-wins tier has at most one recommendation for each of idle
\* compute, orphaned storage and unused addresses and none for any other
\* category; a category's recommendation is there iff the monthly_cost of its
\* findings sums to more than zero, and its monthly_savings is that sum.
C7_QuickWins ==
    OptimizationDone =>
        LET wins == analysis["optimization"]["quick_wins"]
            report == analysis["waste"]
        IN  /\ \A j \in 1..Len(wins) :
                   \E q \in QuickWinCategories : wins[j]["title"] = q[2]
            /\ \A q \in QuickWinCategories :
                   LET js == {j \in 1..Len(wins) : wins[j]["title"] = q[2]}
                       cost == CategoryCost(report, q[1])
                   IN  /\ Cardinality(js) = IF cost > 0 THEN 1 ELSE 0
                       /\ \A j \in js : wins[j]["monthly_savings"] = cost

C7_Witness ==
    /\ OptimizationDone
    /\ Len(analysis["optimization"]["quick_wins"]) = 2
    /\ Len(data["ec2_instances"]) >= 1
    /\ analysis["waste"]["categories"]["idle_ec2"] = <<>>
    /\ Len(analysis["waste"]["categories"]["old_snapshots"]) = 1
    /\ Len(analysis["waste"]["categories"]["idle_rds"]) = 2

\* C8: the quick wins are in descending order of monthly_savings, and wins with
\* equal savings are in emission order: idle compute, orphaned storage, unused
\* addresses.
C8_QuickWinsOrder ==
    OptimizationDone =>
        LET wins == analysis["optimization"]["quick_wins"]
            Place(w) == (CHOOSE q \in QuickWinCategories : q[2] = w["title"])[3]
        IN  \A j \in 1..(Len(wins) - 1) :
                \/ wins[j]["monthly_savings"] > wins[j + 1]["monthly_savings"]
                \/ /\ wins[j]["monthly_savings"] = wins[j + 1]["monthly_savings"]
                   /\ Place(wins[j]) < Place(wins[j + 1])

C8_Witness ==
    /\ OptimizationDone
    /\ Len(analysis["optimization"]["quick_wins"]) = 3
    /\ analysis["optimization"]["quick_wins"][1]["monthly_savings"] =
           analysis["optimization"]["quick_wins"][2]["monthly_savings"]
    /\ analysis["optimization"]["quick_wins"][1]["title"] = "Terminate idle EC2 instances"
    /\ analysis["optimization"]["quick_wins"][3]["title"] = "Release unused Elastic IPs"

\* the optimization step of the run has been taken with --analyze
OptimizationAttempted ==
    /\ args["analyze"]
    /\ WasteDone
    /\ pc \in {"forecast", "governance", "report", "done", "error"}

\* C9: with at least one attached gp2 volume the medium-term tier is exactly one
\* recommendation whose monthly_savings is the sum of size_gb x (0.10 - 0.08)
\* over those volumes; with none the tier is empty; no returned medium-term
\* recommendation has zero savings.
C9_MediumTerm ==
    OptimizationAttempted =>
        LET volumes == data["ebs_volumes"]
            gp2 == {k \in 1..Len(volumes) :
                        /\ volumes[k]["type"] = "gp2"
                        /\ "attached" \in DOMAIN volumes[k]
                        /\ volumes[k]["attached"]}
        IN  /\ OptimizationDone
            /\ LET tier == analysis["optimization"]["medium_term"]
               IN  /\ Len(tier) = IF gp2 # {} THEN 1 ELSE 0
                   /\ \A j \in 1..Len(tier) :
                          /\ tier[j]["monthly_savings"] =
                                 FnSum([k \in gp2 |-> volumes[k]["size_gb"] * 20])
                          /\ tier[j]["monthly_savings"] > 0

\* C9 on the runs in which optimize() returns: the statement of C9 holds of
\* every optimization result that is produced.
C9_MediumTermWhenReturned ==
    OptimizationDone =>
        LET volumes == data["ebs_volumes"]
            gp2 == {k \in 1..Len(volumes) :
                        /\ volumes[k]["type"] = "gp2"
                        /\ "attached" \in DOMAIN volumes[k]
                        /\ volumes[k]["attached"]}
            tier == analysis["optimization"]["medium_term"]
        IN  /\ Len(tier) = IF gp2 # {} THEN 1 ELSE 0
            /\ \A j \in 1..Len(tier) :
                   /\ tier[j]["monthly_savings"] =
                          FnSum([k \in gp2 |-> volumes[k]["size_gb"] * 20])
                   /\ tier[j]["monthly_savings"] > 0

C9_WitnessReturned ==
    /\ OptimizationDone
    /\ Len(analysis["optimization"]["medium_term"]) = 1
    /\ analysis["optimization"]["medium_term"][1]["monthly_savings"] = 4000

\* the run in which C9 fails: an attached gp2 volume next to a gp2 volume
\* without the 'attached' key
C9_FailingInput ==
    /\ pc = "error"
    /\ Len(data["ebs_volumes"]) = 2
    /\ data["ebs_volumes"][1]["type"] = "gp2"
    /\ "attached" \in DOMAIN data["ebs_volumes"][1]
    /\ data["ebs_volumes"][1]["attached"]
    /\ data["ebs_volumes"][2]["type"] = "gp2"
    /\ "attached" \notin DOMAIN data["ebs_volumes"][2]

C11_OptimizeTotal ==
    OptimizationAttempted =>
        /\ pc # "error"
        /\ OptimizationDone
        /\ LET volumes == data["ebs_volumes"]
               gp2 == {k \in 1..Len(volumes) :
                           /\ volumes[k]["type"] = "gp2"
                           /\ Get(volumes[k], "attached", TRUE)}
           IN  Len(analysis["optimization"]["medium_term"]) =
                   IF gp2 # {} THEN 1 ELSE 0

\* the run in which C11 fails: waste detection has completed on an inventory
\* whose only volume is a gp2 volume without the 'attached' key
C11_FailingInput ==
    /\ pc = "error"
    /\ WasteDone
    /\ Len(data["ebs_volumes"]) = 1
    /\ data["ebs_volumes"][1]["type"] = "gp2"
    /\ "attached" \notin DOMAIN data["ebs_volumes"][1]

ForecastDone == "forecast" \in DOMAIN analysis

\* the share of the current monthly cost, in percent, from which the i-th
\* scenario starts
BasePercent == <<100, 80, 60>>

\* the digits of (the number with the digits ds) * k^m
RECURSIVE MulPow(_, _, _)
MulPow(ds, k, m) == IF m = 0 THEN ds ELSE MulPow(MulDigits(ds, k, 0), k, m - 1)

\* round(c * pct/100 * 1.05^m, 2) for c in mills, in mills
ExactMonthCost(c, pct, m) ==
    Round2([n |-> MulPow(MulDigits(Digits(c), pct, 0), 105, m), e |-> 2 * m + 2])

\* the values that round(x * 1.05, 2) can take for a recorded cost x (a whole
\* number of cents, in mills): both neighbours when x * 1.05 is a tie
RoundedNext(x) ==
    LET t == (x \div 10) * 105
        q == t \div 100
        r == t % 100
    IN  IF r > 50 THEN {(q + 1) * 10}
        ELSE IF r < 50 THEN {q * 10}
        ELSE {q * 10, (q + 1) * 10}

C13_BaselineStrictlyIncreasing ==
    (ForecastDone /\ analysis["forecast"]["current_monthly"] > 0) =>
        LET p == analysis["forecast"]["scenarios"][1]["projections"]
        IN  \A m \in 1..(Len(p) - 1) : p[m + 1]["cost"] > p[m]["cost"]

\* C13 as the program computes it: the recorded Baseline costs never decrease,
\* and they increase strictly when the current monthly cost is at least 0.20
\* (a month's growth is then at least one cent).
C13_BaselineIncreasing ==
    ForecastDone =>
        LET p == analysis["forecast"]["scenarios"][1]["projections"]
        IN  \A m \in 1..(Len(p) - 1) :
                /\ p[m + 1]["cost"] >= p[m]["cost"]
                /\ analysis["forecast"]["current_monthly"] >= 200
                       => p[m + 1]["cost"] > p[m]["cost"]

\* a forecast from 0.21 over the longest horizon: 0.22 is recorded for the
\* first month
C13_Witness ==
    /\ ForecastDone
    /\ analysis["forecast"]["months"] = MaxMonths
    /\ analysis["forecast"]["current_monthly"] = 210
    /\ analysis["forecast"]["scenarios"][1]["projections"][1]["cost"] = 220

\* C14: for every current cost and horizon, month_12 of Aggressive is strictly
\* below month_12 of Conservative, which is strictly below month_12 of
\* Baseline.
C14_ScenarioOrdering ==
    ForecastDone =>
        LET s == analysis["forecast"]["scenarios"]
        IN  s[3]["month_12"] < s[2]["month_12"] /\ s[2]["month_12"] < s[1]["month_12"]

\* C14 as the program computes it: the strict order holds when the horizon is
\* at least 12 months and the current monthly cost at least 0.03; with a
\* shorter horizon month_12 is 0 in all three scenarios.
C14_ScenarioOrderingFromMonth12 ==
    ForecastDone =>
        LET f == analysis["forecast"]
            s == f["scenarios"]
        IN  /\ (f["months"] >= 12 /\ f["current_monthly"] >= 30) =>
                   /\ s[3]["month_12"] < s[2]["month_12"]
                   /\ s[2]["month_12"] < s[1]["month_12"]
            /\ f["months"] < 12 => \A i \in 1..3 : s[i]["month_12"] = 0

C14_Witness ==
    /\ ForecastDone
    /\ analysis["forecast"]["months"] = 12
    /\ analysis["forecast"]["current_monthly"] = 30
    /\ analysis["forecast"]["scenarios"][1]["month_12"] = 50
    /\ analysis["forecast"]["scenarios"][2]["month_12"] = 40
    /\ analysis["forecast"]["scenarios"][3]["month_12"] = 30

\* C15: for months >= 1 forecast() returns the three scenarios Baseline,
\* Conservative, Aggressive in this order, each with exactly months projections
\* whose month indexes are 1..months ascending; month_3, month_6 and month_12
\* are the projected cost at that index when the horizon reaches it and 0
\* otherwise; year_total is the sum of the first min(12, months) projected
\* costs.
C15_ForecastShape ==
    ForecastDone =>
        LET f == analysis["forecast"]
            s == f["scenarios"]
            months == args["forecast"]
            At(p, i) == IF months >= i THEN p[i]["cost"] ELSE 0
        IN  /\ f["months"] = months
            /\ Len(s) = 3
            /\ s[1]["name"] = "Baseline (No Optimization)"
            /\ s[2]["name"] = "Conservative (20% Optimization)"
            /\ s[3]["name"] = "Aggressive (40% Optimization)"
            /\ \A i \in 1..3 :
                   LET p == s[i]["projections"]
                   IN  /\ Len(p) = months
                       /\ \A m \in 1..months : p[m]["month"] = m
                       /\ s[i]["month_3"] = At(p, 3)
                       /\ s[i]["month_6"] = At(p, 6)
                       /\ s[i]["month_12"] = At(p, 12)
                       /\ s[i]["year_total"] =
                              FnSum([m \in 1..(IF months < 12 THEN months ELSE 12)
                                         |-> p[m]["cost"]])

\* a horizon beyond 12 months: the 13th month is projected and is not part of
\* year_total
C15_Witness ==
    /\ ForecastDone
    /\ args["forecast"] > 12
    /\ analysis["forecast"]["current_monthly"] = 1000000
    /\ analysis["forecast"]["scenarios"][1]["projections"][13]["cost"] > 0
    /\ analysis["forecast"]["scenarios"][1]["month_6"] =
           analysis["forecast"]["scenarios"][1]["projections"][6]["cost"]

GovernanceDone == "governance" \in DOMAIN analysis

\* the required tag keys, and the resource r carrying all of them
RequiredTagKeys == {"Environment", "Team", "CostCenter"}

HasRequiredTags(r) == "tags" \in DOMAIN r /\ RequiredTagKeys \subseteq DOMAIN r["tags"]

\* the positions of the resources of a list that do not carry all of them
NonCompliant(resources) == {k \in 1..Len(resources) : ~HasRequiredTags(resources[k])}

\* C16: a resource is compliant exactly when its tag set contains Environment,
\* Team and CostCenter (values and further tags do not matter; without a tags
\* field it is non-compliant); only instances and volumes are scanned;
\* tag_compliance is compliant / total * 100 rounded to one decimal, lies in
\* 0..100, and is 100 when there is no instance and no volume.
C16_TagCompliance ==
    GovernanceDone =>
        LET g == analysis["governance"]
            instances == data["ec2_instances"]
            volumes == data["ebs_volumes"]
            total == Len(instances) + Len(volumes)
            untagged == Cardinality(NonCompliant(instances))
                        + Cardinality(NonCompliant(volumes))
            compliant == total - untagged
            tenths == g["tag_compliance"]
        IN  /\ g["untagged_resources"] = untagged
            /\ \A j \in 1..Len(g["violations"]) :
                   LET v == g["violations"][j]
                   IN  \/ /\ v["resource_type"] = "EC2"
                          /\ v["resource_id"] \in NonCompliant(instances)
                       \/ /\ v["resource_type"] = "EBS"
                          /\ v["resource_id"] \in NonCompliant(volumes)
            /\ tenths >= 0 /\ tenths <= 1000
            /\ total = 0 => tenths = 1000
            /\ total > 0 =>
                   LET diff == tenths * total - 1000 * compliant
                   IN  2 * diff <= total /\ -2 * diff <= total

\* two instances, one with the three required tags and empty values, one with
\* only a tag that is not required, next to the sample's non-compliant volumes
C16_Witness ==
    /\ GovernanceDone
    /\ Len(data["ec2_instances"]) = 2
    /\ HasRequiredTags(data["ec2_instances"][1])
    /\ data["ec2_instances"][1]["tags"]["Team"] = ""
    /\ "tags" \in DOMAIN data["ec2_instances"][2]
    /\ DOMAIN data["ec2_instances"][2]["tags"] = {"Name"}
    /\ analysis["governance"]["tag_compliance"] = 200
    /\ analysis["governance"]["untagged_resources"] = 4

\* the position of a tag in the order Environment, Team, CostCenter
TagPlace(tag) == CHOOSE i \in 1..3 : <<"Environment", "Team", "CostCenter">>[i] = tag

\* missing is the list of the required tags absent from r, in that order
ListsAbsentTags(missing, r) ==
    /\ missing # <<>>
    /\ {missing[a] : a \in 1..Len(missing)} =
           RequiredTagKeys \ (IF "tags" \in DOMAIN r THEN DOMAIN r["tags"] ELSE {})
    /\ \A a \in 1..(Len(missing) - 1) : TagPlace(missing[a]) < TagPlace(missing[a + 1])

\* C17: untagged_resources is the number of non-compliant scanned resources,
\* also above 10; violations has min(10, untagged_resources) entries, the
\* first ones of the full violation sequence in scan order (instances, then
\* volumes, each in inventory order); every missing_tags is the non-empty list
\* of the absent required tags in the order Environment, Team, CostCenter.
C17_Violations ==
    GovernanceDone =>
        LET g == analysis["governance"]
            instances == data["ec2_instances"]
            volumes == data["ebs_volumes"]
            ni == NonCompliant(instances)
            nv == NonCompliant(volumes)
            untagged == Cardinality(ni) + Cardinality(nv)
            shown == g["violations"]
        IN  /\ g["untagged_resources"] = untagged
            /\ Len(shown) = IF untagged < 10 THEN untagged ELSE 10
            /\ \A k \in ni :
                   Rank(ni, k) <= 10 =>
                       /\ shown[Rank(ni, k)]["resource_type"] = "EC2"
                       /\ shown[Rank(ni, k)]["resource_id"] = instances[k]["id"]
                       /\ ListsAbsentTags(shown[Rank(ni, k)]["missing_tags"], instances[k])
            /\ \A k \in nv :
                   Cardinality(ni) + Rank(nv, k) <= 10 =>
                       LET v == shown[Cardinality(ni) + Rank(nv, k)]
                       IN  /\ v["resource_type"] = "EBS"
                           /\ v["resource_id"] = volumes[k]["id"]
                           /\ ListsAbsentTags(v["missing_tags"], volumes[k])

\* more than ten non-compliant resources, instances and volumes among the ten
\* that are listed
C17_Witness ==
    /\ GovernanceDone
    /\ analysis["governance"]["untagged_resources"] > 10
    /\ Len(analysis["governance"]["violations"]) = 10
    /\ analysis["governance"]["violations"][1]["resource_type"] = "EC2"
    /\ analysis["governance"]["violations"][10]["resource_type"] = "EBS"
    /\ \E j \in 1..10 : Len(analysis["governance"]["violations"][j]["missing_tags"]) = 2

VisibilityDone == "visibility" \in DOMAIN analysis

\* the sum of the costs of the cost dict costs, taken over its positions
DictSum(costs) == FnSum([k \in 1..Len(costs) |-> costs[k][2]])

\* the fraction pct is cost / total * 100
IsShareOf(pct, cost, total) ==
    LET g == GCD(cost, total)
        c == cost \div g
        t == total \div g
    IN  /\ pct["den"] > 0
        /\ t % pct["den"] = 0
        /\ pct["num"] * (t \div pct["den"]) = 100 * c

\* the percentages of breakdown, fractions whose denominators divide total,
\* add up to 100
SumsTo100(breakdown, total) ==
    LET whole == FnSum([j \in 1..Len(breakdown) |->
                            breakdown[j]["percentage"]["num"]
                                \div breakdown[j]["percentage"]["den"]])
        parts == FnSum([j \in 1..Len(breakdown) |->
                            (breakdown[j]["percentage"]["num"]
                                 % breakdown[j]["percentage"]["den"])
                            * (total \div breakdown[j]["percentage"]["den"])])
    IN  parts = (100 - whole) * total

\* breakdown is the breakdown of the cost dict costs that C18 describes
IsBreakdownOf(breakdown, costs) ==
    LET total == DictSum(costs)
    IN  /\ Len(breakdown) = Len(costs)
        /\ \A k \in 1..Len(costs) :
               \E j \in 1..Len(breakdown) :
                   /\ breakdown[j]["name"] = costs[k][1]
                   /\ breakdown[j]["cost"] = costs[k][2]
        /\ \A j \in 1..(Len(breakdown) - 1) :
               breakdown[j]["cost"] >= breakdown[j + 1]["cost"]
        /\ total > 0 =>
               /\ \A j \in 1..Len(breakdown) :
                      IsShareOf(breakdown[j]["percentage"], breakdown[j]["cost"], total)
               /\ SumsTo100(breakdown, total)
        /\ total = 0 =>
               \A j \in 1..Len(breakdown) : breakdown[j]["percentage"]["num"] = 0

\* C18: in each breakdown (by service, by team, by environment) an entry's
\* percentage is its cost divided by the sum of that breakdown's own values,
\* times 100, not a share of total_monthly_cost, so the percentages sum to 100;
\* the entries are listed by cost descending; an empty breakdown gives an empty
\* list, and a breakdown whose values are all zero gives 0% for every entry.
C18_Breakdowns ==
    VisibilityDone =>
        LET v == analysis["visibility"]
        IN  /\ IsBreakdownOf(v["by_service"], Get(data, "costs_by_service", <<>>))
            /\ IsBreakdownOf(v["by_team"], Get(data, "costs_by_team", <<>>))
            /\ IsBreakdownOf(v["by_environment"], Get(data, "costs_by_environment", <<>>))

\* the dict {EC2: 18450, RDS: 12300} in a dataset whose total_monthly_cost is
\* 45234.50: 60% and 40%
C18_Witness ==
    /\ VisibilityDone
    /\ data["costs_by_service"] = <<<<"EC2", 18450000>>, <<"RDS", 12300000>>>>
    /\ data["total_monthly_cost"] = 45234500
    /\ analysis["visibility"]["by_service"][1] =
           [name |-> "EC2", cost |-> 18450000, percentage |-> [num |-> 60, den |-> 1]]
    /\ analysis["visibility"]["by_service"][2] =
           [name |-> "RDS", cost |-> 12300000, percentage |-> [num |-> 40, den |-> 1]]
    /\ "costs_by_team" \notin DOMAIN data
    /\ analysis["visibility"]["by_team"] = <<>>

\* a breakdown whose values are all zero, and an empty one
C18_WitnessZero ==
    /\ VisibilityDone
    /\ Len(data["costs_by_service"]) = 2
    /\ \A k \in 1..2 : data["costs_by_service"][k][2] = 0
    /\ \A j \in 1..2 : analysis["visibility"]["by_service"][j]["percentage"]["num"] = 0

IsMalformed(d) ==
    \/ \E k \in 1..Len(d["ec2_instances"]) : "state" \notin DOMAIN d["ec2_instances"][k]
    \/ \E k \in 1..Len(d["snapshots"]) : "age_days" \notin DOMAIN d["snapshots"][k]

\* C20: when a record lacks a required field the run aborts with a validation
\* failure at a point where no engine has run yet: no engine result is ever
\* produced, the run does not complete, and no engine is the place where the
\* missing field is detected.
C20_MalformedBeforeEngines ==
    IsMalformed(data) =>
        /\ DOMAIN analysis = {"metadata"}
        /\ pc # "done"
        /\ raised_in = "nowhere"

\* the run in which C20 fails: --analyze on an inventory whose first instance
\* has no 'state'; the cost visibility engine has produced its result and the
\* KeyError comes out of the waste detection engine
C20_FailingInput ==
    /\ args = AnalyzeArgs
    /\ Len(data["ec2_instances"]) >= 1
    /\ "state" \notin DOMAIN data["ec2_instances"][1]
    /\ pc = "error"
    /\ raised_in = "WasteDetectionEngine"
    /\ VisibilityDone

\* the run in which the missing field is never detected: with --visibility
\* alone no engine reads the record and _analyze returns
C20_Undetected ==
    /\ args = VisibilityArgs
    /\ IsMalformed(data)
    /\ pc = "report"
    /\ raised_in = "nowhere"

\* the invocations of the usage text: --demo alone, --analyze, --waste alone
\* and --forecast N alone
IsDocumentedMode(a) ==
    \/ a \in {DemoArgs, AnalyzeArgs, WasteArgs}
    \/ \E months \in 1..MaxMonths : a = ForecastArgs(months)

\* C21: in every documented invocation mode (--demo alone, --analyze, --waste
\* alone, --forecast N alone), data collection succeeding, run() runs the
\* requested engines, generates the text report and returns 0; it never
\* returns 1 because the report generator needs a section that the mode did
\* not produce.
C21_DocumentedModesSucceed ==
    IsDocumentedMode(args) =>
        /\ ExitCode # 1
        /\ raised_in # "ReportGenerator"
        /\ pc = "done" => printed # <<>>

\* the runs in which C21 fails: --demo alone runs no engine, and the report
\* generator raises KeyError on analysis['visibility']
C21_FailingInput ==
    /\ args = DemoArgs
    /\ DOMAIN analysis = {"metadata"}
    /\ ExitCode = 1
    /\ raised_in = "ReportGenerator"
    /\ printed = <<>>

\* --waste alone and --forecast N alone end in the same way, with the result
\* of the requested engine stored
C21_FailingWaste ==
    /\ args = WasteArgs
    /\ DOMAIN analysis = {"metadata", "waste"}
    /\ ExitCode = 1
    /\ raised_in = "ReportGenerator"

C21_FailingForecast ==
    /\ args = ForecastArgs(1)
    /\ DOMAIN analysis = {"metadata", "forecast"}
    /\ ExitCode = 1
    /\ raised_in = "ReportGenerator"

\* --analyze, and no flag at all, return 0 with the report generated
C21_AnalyzeSucceeds ==
    /\ args = AnalyzeArgs
    /\ ExitCode = 0
    /\ Len(printed) = 7

\* C22: within a run the optimization engine is invoked only after the waste
\* detection engine has completed and receives exactly the waste report of
\* that run; for no combination of mode flags is an optimization result in
\* the assembled analysis without a waste result; the forecasting result is
\* determined by the current monthly cost and the horizon, and the governance
\* result by the instances and volumes, whether or not waste detection or
\* optimization ran.
C22_OrchestrationOrder ==
    [][/\ "optimization" \in DOMAIN analysis' \ DOMAIN analysis =>
              /\ "waste" \in DOMAIN analysis
              /\ analysis'["optimization"] = optimize(data, analysis["waste"])
       /\ "optimization" \in DOMAIN analysis' => "waste" \in DOMAIN analysis'
       /\ "forecast" \in DOMAIN analysis' =>
              analysis'["forecast"] =
                  forecast([total_monthly_cost |-> data["total_monthly_cost"]],
                           args["forecast"])
       /\ "governance" \in DOMAIN analysis' =>
              analysis'["governance"] =
                  check_all([ec2_instances |-> data["ec2_instances"],
                             ebs_volumes |-> data["ebs_volumes"]])]_vars

\* a run with --analyze --forecast N in which waste was found: the waste,
\* optimization, forecast and governance results are all stored
C22_Witness ==
    /\ args = AnalyzeForecastArgs(MaxMonths)
    /\ WasteDone /\ OptimizationDone /\ ForecastDone /\ GovernanceDone
    /\ analysis["waste"]["total_items"] > 0
    /\ analysis["optimization"]["quick_wins"] # <<>>

\* a run with --forecast N alone: the forecast is stored and neither waste
\* detection nor optimization ran
C22_WitnessForecastAlone ==
    /\ args = ForecastArgs(MaxMonths)
    /\ ForecastDone
    /\ ~WasteDone /\ ~OptimizationDone

\* C23: total_potential_savings is the sum of monthly_savings over all the
\* recommendations returned in the quick_wins, medium_term and long_term
\* tiers, total_annual_impact is twelve times that, and no returned
\* recommendation has negative monthly_savings.
C23_OptimizationTotals ==
    OptimizationDone =>
        LET o == analysis["optimization"]
            tiers == {"quick_wins", "medium_term", "long_term"}
            returned == {<<t, j>> \in tiers \X (1..3) : j <= Len(o[t])}
            total == FnSum([r \in returned |-> o[r[1]][r[2]]["monthly_savings"]])
        IN  /\ \A t \in tiers : Len(o[t]) <= 3
            /\ o["total_potential_savings"] = total
            /\ o["total_annual_impact"] = total * 12
            /\ \A r \in returned : o[r[1]][r[2]]["monthly_savings"] >= 0

\* all three tiers hold a recommendation and the idle-EC2 quick win was
\* discarded for having no savings
C23_Witness ==
    /\ OptimizationDone
    /\ Len(analysis["optimization"]["quick_wins"]) = 2
    /\ analysis["waste"]["categories"]["idle_ec2"] = <<>>
    /\ Len(analysis["optimization"]["medium_term"]) = 1
    /\ Len(analysis["optimization"]["long_term"]) = 1
    /\ analysis["optimization"]["total_potential_savings"] >
           analysis["optimization"]["quick_wins"][1]["monthly_savings"]
           + analysis["optimization"]["quick_wins"][2]["monthly_savings"]

====
